---- MODULE Spec2Model ----
(***************************************************************************)
(* A model of dnadiffusion/utils/train_util.py: the TrainLoop controller   *)
(* run by NumProcs cooperating processes (one of them the main process),   *)
(* each executing the same sequence of calls on its own TrainLoop object.  *)
(* Numbers that are floats in the program are fixed-point integers here    *)
(* (one unit = 1/1000).                                                    *)
(***************************************************************************)
EXTENDS Integers, Sequences, FiniteSets, TLC

\* ------------------------------------------------------------------ bounds
NumProcs == 2
Epochs == 2
Batches == 2
MaxInterval == 2
MaxPathLen == 3

\* ------------------------------------------------------- program constants
DefaultNumSampling == 1000

Procs == 0 .. (NumProcs - 1)
MainProc == 0
ParamNames == {"w", "v"}
Intervals == 1 .. MaxInterval
CkptEpochs == 1 .. (Epochs + 1)
NoFile == [present |-> FALSE]
NoParams == <<>>

VARIABLES
    cfg,            \* the constructor's arguments (read-only afterwards)
    lora_path,      \* self.lora_path, a string as a sequence of characters
    script,         \* the calls every process makes on its TrainLoop, in order
    has_inner,      \* whether the model handed to __init__ has an attribute .model
    files,          \* the checkpoint files epoch_{E}_{model_name}.pt, by E
    pc,             \* each process's position in the code
    call,           \* each process's number of completed calls of the script
    start_epoch,    \* self.start_epoch
    epoch,          \* the loop variable of train_loop
    step,           \* the enumerate index of the batch loop
    global_step,    \* self.global_step (-1: not assigned yet)
    model,          \* self.model's parameters
    training,       \* self.model's mode: TRUE after train(), FALSE after eval()
    optimizer,      \* self.optimizer's state
    grad,           \* the gradient left by accelerator.backward
    loss,           \* the loss of the current batch
    ema_model,      \* self.ema_model's parameters (NoParams where never created)
    ema,            \* whether self.ema and self.ema_model were created
    metrics,        \* train_kl, test_kl, shuffle_kl, seq_similarity
    prepared,       \* how many times accelerator.prepare ran in each process
    trackers,       \* how many times init_trackers ran in each process
    bar,            \* how many wait_for_everyone calls each process has entered
    bwd_done,       \* history: backward passes completed by each process
    opt_done,       \* history: optimizer steps applied by each process
    ema_done,       \* history: EMA updates applied by each process
    ema_prev,       \* history: the shadow parameters before the last EMA update
    gsteps,         \* history: the gradient steps of the current train_loop
    epochs_run,     \* history: the epochs each process began, by call
    log_records,    \* history: the records handed to accelerator.log
    sample_calls,   \* history: the calls of create_sample
    metric_calls,   \* history: the calls of metric_function
    ckpt_writes,    \* history: the calls of torch.save
    lora_calls,     \* history: the calls of save_lora_function
    snap,           \* history: the main process's state at each save_model(E)
    lora_arg,       \* history: the path last passed to save_lora_function
    dirs,           \* the directories Path(path_use).mkdir has made
    checkpoint_dict,    \* the checkpoint last read by load in each process
    model_before_load,  \* history: the model's parameters before the last load
    raised          \* the exception that ended each process ("" for none)

vars == <<cfg, lora_path, script, has_inner, dirs, files, pc, call, start_epoch, epoch, step,
          global_step, model, training, optimizer, grad, loss, ema_model, ema,
          metrics, prepared, trackers, bar, bwd_done, opt_done, ema_done,
          ema_prev, gsteps, epochs_run, log_records, sample_calls,
          metric_calls, ckpt_writes, lora_calls, snap, lora_arg,
          checkpoint_dict, model_before_load, raised>>

cfgVars == <<cfg, lora_path, script, has_inner>>
loadVars == <<checkpoint_dict, model_before_load>>
histCounters == <<bwd_done, opt_done, ema_done>>
histCalls == <<log_records, sample_calls, metric_calls, ckpt_writes, lora_calls,
               lora_arg, dirs>>

\* --------------------------------------------------------------- helpers
IsMainProcess(p) == p = MainProc

InitModel == [n \in ParamNames |-> IF n = "w" THEN 1000 ELSE 2000]
InitOptimizer == [t |-> 0, m |-> 0]
InitMetrics == [train_kl |-> 1, test_kl |-> 1, shuffle_kl |-> 1,
                seq_similarity |-> 1]

\* The fixed-point gradient of batch number s of an epoch (the batches are
\* opaque to this code; every process gets the all-reduced gradient).
Grad(s) == 100 * (s + 1)

\* self.model(x, y): the loss of batch s under parameters m
Loss(m, s) == m["w"] + m["v"] + s

\* self.optimizer.step(): one update of every parameter from the gradient g
\* and the optimizer's running statistics
OptimizerStep(m, o, g) ==
    LET mom == o.m + g
    IN  [model |-> [n \in DOMAIN m |-> m[n] - mom],
         optimizer |-> [t |-> o.t + 1, m |-> mom]]

\* EMA.update_average: shadow <- 0.995 * shadow + 0.005 * current, in
\* fixed point (rounded down to the unit)
UpdateAverage(old, new) == (995 * old + 5 * new) \div 1000

\* EMA.step_ema(ema_model, model): every shadow parameter moves toward the
\* trained model's parameter
StepEma(shadow, current) ==
    [n \in DOMAIN shadow |-> UpdateAverage(shadow[n], current[n])]

\* a slip: the epoch is not scaled by the number of batches
GlobalStepUnscaled(e, s) == e + s

\* self.global_step = epoch * len(self.train_dl) + step
GlobalStep(e, s) == e * Batches + s

\* a slip: the tenth is rounded up
NumberOfSamplesRoundedUp(n) == (n + 9) \div 10

\* int(self.num_sampling_to_compare_cells / 10): the quotient, cut toward 0
NumberOfSamples(n) == IF n >= 0 THEN n \div 10 ELSE -((-n) \div 10)

\* ------------------------------------------------ strings (save_lora_model)
Chars == {"/", "o", "."}
Digits == <<"0", "1", "2", "3", "4", "5", "6", "7", "8", "9">>
FileSuffix == <<"_", "f", "i", "l", "e", "p", "a", "t", "h", ".", "p", "t", "h">>

\* str(epoch)
RECURSIVE Str(_)
Str(n) == IF n < 10 THEN <<Digits[n + 1]>>
          ELSE Str(n \div 10) \o <<Digits[(n % 10) + 1]>>

\* s.replace('//', '/'): one pass from the left over non-overlapping
\* occurrences, as Python's str.replace does
RECURSIVE ReplaceDoubleSlash(_)
ReplaceDoubleSlash(s) ==
    IF Len(s) = 0 THEN <<>>
    ELSE IF Len(s) >= 2 /\ s[1] = "/" /\ s[2] = "/"
         THEN <<"/">> \o ReplaceDoubleSlash(SubSeq(s, 3, Len(s)))
         ELSE <<s[1]>> \o ReplaceDoubleSlash(Tail(s))

\* path_use of save_lora_model
PathUse(lp) == IF lp = <<>> THEN <<".">> ELSE lp

\* final_path_name_and_file of save_lora_model
FinalPathNameAndFile(lp, e) == PathUse(lp) \o <<"/">> \o Str(e) \o FileSuffix

\* the path save_lora_model hands to save_lora_function
LoraSaverPath(lp, e) == ReplaceDoubleSlash(FinalPathNameAndFile(lp, e))

\* ------------------------------------------------- checkpoints (save, load)
\* accelerator.get_state_dict / state_dict(): the parameters by name
GetStateDict(m) == m

\* a slip: the checkpoint holds a fresh optimizer state
CheckpointDictFreshOptimizer(p, e) ==
    [present |-> TRUE,
     model |-> model[p],
     optimizer |-> InitOptimizer,
     epoch |-> e,
     ema_model |-> ema_model[p]]

\* checkpoint_dict of save_model
CheckpointDict(p, e) ==
    [present |-> TRUE,
     model |-> GetStateDict(model[p]),
     optimizer |-> optimizer[p],
     epoch |-> e,
     ema_model |-> GetStateDict(ema_model[p])]

\* a slip: parameters the checkpoint does not name are reset
LoadStateDictResetMissing(cur, sd) ==
    [n \in DOMAIN cur |-> IF n \in DOMAIN sd THEN sd[n] ELSE 0]

\* load_state_dict(sd, strict=False): the parameters the checkpoint names
\* are restored, the others keep their values
LoadStateDictNonStrict(cur, sd) ==
    [n \in DOMAIN cur |-> IF n \in DOMAIN sd THEN sd[n] ELSE cur[n]]

\* load_state_dict(sd) (strict): fails unless the names match exactly
StrictLoadFails(cur, sd) == DOMAIN sd # DOMAIN cur

LoadStateDictStrict(cur, sd) == [n \in DOMAIN cur |-> sd[n]]

\* A checkpoint left by an earlier run, holding the parameters named in
\* keys and the epoch e
OldCheckpoint(keys, e) ==
    [present |-> TRUE,
     model |-> [n \in keys |-> IF n = "w" THEN 5000 ELSE 7000],
     optimizer |-> [t |-> 3, m |-> 300],
     epoch |-> e,
     ema_model |-> [n \in keys |-> IF n = "w" THEN 4000 ELSE 6000]]

\* --------------------------------------------------------------- barrier
\* a slip: the barrier does not wait for the main process
BarrierOpenWithoutMain(p) == \A q \in Procs \ {MainProc} : bar[q] >= bar[p]

\* accelerator.wait_for_everyone(): a process that has entered its k-th
\* barrier leaves it once every process has entered its k-th barrier
BarrierOpen(p) == \A q \in Procs : bar[q] >= bar[p]

\* ------------------------------------------------------ the loop's guards
\* a slip: the logging guard tests the number of the step after
ShouldLogNextStep(p, gs) == (gs + 1) % cfg.log_step_show = 0 /\ IsMainProcess(p)

\* line 95: self.global_step % self.log_step_show == 0 and is_main_process
ShouldLog(p, gs) == gs % cfg.log_step_show = 0 /\ IsMainProcess(p)

\* a slip: the sampling guard without the main-process test
ShouldSampleEveryProcess(p, e) == e % cfg.sample_epoch = 0

\* line 99: epoch % self.sample_epoch == 0 and is_main_process
ShouldSample(p, e) == e % cfg.sample_epoch = 0 /\ IsMainProcess(p)

\* a slip: the saving guard tests the sampling interval
ShouldSaveSampleInterval(p, e) == e % cfg.sample_epoch = 0 /\ IsMainProcess(p)

\* line 103: epoch % self.save_epoch == 0 and is_main_process
ShouldSave(p, e) == e % cfg.save_epoch = 0 /\ IsMainProcess(p)

\* line 108: self.save_lora_function and epoch % self.lora_save_epoch == 0
\* and is_main_process
ShouldExport(p, e) ==
    cfg.save_lora_function /\ e % cfg.lora_save_epoch = 0 /\ IsMainProcess(p)

\* a slip: the EMA update is skipped for the first steps
ShouldEmaAfterWarmUp(p) == IsMainProcess(p) /\ opt_done[p] > 1

\* a slip: the EMA update without the main-process test
ShouldEmaEveryProcess(p) == p \in Procs

\* line 123: the guard of the EMA update in train_step
ShouldEma(p) == IsMainProcess(p)

\* the call a process is executing or about to execute
CurrentCall(p) == script[call[p] + 1]

\* ------------------------------------------------------------ construction
\* TrainLoop.__init__ in every process
Constructed ==
    /\ pc = [p \in Procs |-> "idle"]
    /\ call = [p \in Procs |-> 0]
    /\ start_epoch = [p \in Procs |-> 1]
    /\ epoch = [p \in Procs |-> 0]
    /\ step = [p \in Procs |-> 0]
    /\ global_step = [p \in Procs |-> -1]
    /\ model = [p \in Procs |-> InitModel]
    /\ training = [p \in Procs |-> TRUE]
    /\ optimizer = [p \in Procs |-> InitOptimizer]
    /\ grad = [p \in Procs |-> 0]
    /\ loss = [p \in Procs |-> 0]
    /\ ema = [p \in Procs |-> IsMainProcess(p)]
    /\ ema_model = [p \in Procs |-> IF IsMainProcess(p) THEN InitModel
                                    ELSE NoParams]
    /\ metrics = [p \in Procs |-> InitMetrics]
    /\ prepared = [p \in Procs |-> 0]
    /\ trackers = [p \in Procs |-> 0]
    /\ bar = [p \in Procs |-> 0]
    /\ bwd_done = [p \in Procs |-> 0]
    /\ opt_done = [p \in Procs |-> 0]
    /\ ema_done = [p \in Procs |-> 0]
    /\ ema_prev = NoParams
    /\ gsteps = [p \in Procs |-> <<>>]
    /\ epochs_run = [p \in Procs |-> <<>>]
    /\ log_records = <<>>
    /\ sample_calls = <<>>
    /\ metric_calls = <<>>
    /\ ckpt_writes = <<>>
    /\ lora_calls = <<>>
    /\ snap = [e \in CkptEpochs |-> NoFile]
    /\ lora_arg = <<>>
    /\ dirs = {}
    /\ checkpoint_dict = [p \in Procs |-> NoFile]
    /\ model_before_load = [p \in Procs |-> NoParams]
    /\ raised = [p \in Procs |-> ""]

Configs ==
    [epochs : {Epochs},
     log_step_show : Intervals,
     sample_epoch : Intervals,
     save_epoch : Intervals,
     lora_save_epoch : Intervals,
     save_lora_function : BOOLEAN,
     metric_function : BOOLEAN,
     num_sampling_to_compare_cells : {DefaultNumSampling}]

TrainLoopCall == [op |-> "train_loop", path |-> 0, start_train |-> FALSE]
LoadCalls == [op : {"load"}, path : CkptEpochs, start_train : BOOLEAN]

\* The models handed to __init__: self.model.model is read by save_lora_model
\* only, and train_loop calls it only when a saver was supplied; without a
\* saver a model with the attribute and one without have the same runs
InnerModels(c) == IF c.save_lora_function THEN BOOLEAN ELSE {TRUE}

\* A run of the training script: construct, then train_loop(); the runs
\* with a metric function are those of SpecResume and SpecSampling
Init ==
    /\ cfg \in {c \in Configs : ~c.metric_function}
    /\ lora_path = <<>>
    /\ has_inner \in InnerModels(cfg)
    /\ script = <<TrainLoopCall>>
    /\ files = [e \in CkptEpochs |-> NoFile]
    /\ Constructed

\* ------------------------------------------------------------------ actions
\* The script's next call on the TrainLoop object
StartCall(p) ==
    /\ pc[p] = "idle"
    /\ call[p] < Len(script)
    /\ pc' = [pc EXCEPT ![p] = IF CurrentCall(p).op = "train_loop"
                               THEN "prepare" ELSE "load"]
    /\ UNCHANGED <<cfgVars, loadVars, raised, files, call, start_epoch, epoch, step, global_step,
                   model, training, optimizer, grad, loss, ema_model, ema,
                   metrics, prepared, trackers, bar, histCounters, ema_prev,
                   gsteps, epochs_run, histCalls, snap>>

\* a slip: the epoch loop resumes after the checkpoint's epoch
PrepareNextEpoch(p) ==
    /\ pc[p] = "prepare"
    /\ prepared' = [prepared EXCEPT ![p] = @ + 1]
    /\ trackers' = [trackers EXCEPT ![p] = IF IsMainProcess(p) THEN @ + 1 ELSE @]
    /\ epoch' = [epoch EXCEPT ![p] = IF call[p] < Len(script)
                                        /\ script[call[p] + 1].op = "load"
                                     THEN start_epoch[p] + 1
                                     ELSE start_epoch[p]]
    /\ gsteps' = [gsteps EXCEPT ![p] = <<>>]
    /\ pc' = [pc EXCEPT ![p] = "epoch_top"]
    /\ UNCHANGED <<cfgVars, loadVars, raised, files, call, start_epoch, step,
                   global_step, model, training, optimizer, grad, loss,
                   ema_model, ema, metrics, bar, histCounters, ema_prev,
                   epochs_run, histCalls, snap>>

\* train_loop, lines 76-85: accelerator.prepare, init_trackers on the main
\* process, and the start of the epoch loop at self.start_epoch
Prepare(p) ==
    /\ pc[p] = "prepare"
    /\ prepared' = [prepared EXCEPT ![p] = @ + 1]
    /\ trackers' = [trackers EXCEPT ![p] = IF IsMainProcess(p) THEN @ + 1 ELSE @]
    /\ epoch' = [epoch EXCEPT ![p] = start_epoch[p]]
    /\ gsteps' = [gsteps EXCEPT ![p] = <<>>]
    /\ pc' = [pc EXCEPT ![p] = "epoch_top"]
    /\ UNCHANGED <<cfgVars, loadVars, raised, files, call, start_epoch, step, global_step,
                   model, training, optimizer, grad, loss, ema_model, ema,
                   metrics, bar, histCounters, ema_prev, epochs_run,
                   histCalls, snap>>

\* a slip: the epoch does not begin with self.model.train()
EpochTopWithoutTrain(p) ==
    /\ pc[p] = "epoch_top"
    /\ IF epoch[p] <= cfg.epochs
       THEN /\ step' = [step EXCEPT ![p] = 0]
            /\ epochs_run' = [epochs_run EXCEPT
                                ![p] = Append(@, [call |-> call[p], epoch |-> epoch[p],
                                              first |-> opt_done[p]])]
            /\ pc' = [pc EXCEPT ![p] = IF Batches > 0 THEN "forward"
                                       ELSE "sampling"]
            /\ call' = call
       ELSE /\ pc' = [pc EXCEPT ![p] = "idle"]
            /\ call' = [call EXCEPT ![p] = @ + 1]
            /\ UNCHANGED <<step, epochs_run>>
    /\ UNCHANGED <<cfgVars, loadVars, raised, files, start_epoch, epoch, global_step, model,
                   training, optimizer, grad, loss, ema_model, ema, metrics, prepared,
                   trackers, bar, histCounters, ema_prev, gsteps, histCalls,
                   snap>>

\* train_loop, lines 85-86: the loop test of range(start_epoch, epochs + 1),
\* then self.model.train(); when the range is exhausted train_loop returns
EpochTop(p) ==
    /\ pc[p] = "epoch_top"
    /\ IF epoch[p] <= cfg.epochs
       THEN /\ training' = [training EXCEPT ![p] = TRUE]
            /\ step' = [step EXCEPT ![p] = 0]
            /\ epochs_run' = [epochs_run EXCEPT
                                ![p] = Append(@, [call |-> call[p], epoch |-> epoch[p],
                                              first |-> opt_done[p]])]
            /\ pc' = [pc EXCEPT ![p] = IF Batches > 0 THEN "forward"
                                       ELSE "sampling"]
            /\ call' = call
       ELSE /\ pc' = [pc EXCEPT ![p] = "idle"]
            /\ call' = [call EXCEPT ![p] = @ + 1]
            /\ UNCHANGED <<training, step, epochs_run>>
    /\ UNCHANGED <<cfgVars, loadVars, raised, files, start_epoch, epoch, global_step, model,
                   optimizer, grad, loss, ema_model, ema, metrics, prepared,
                   trackers, bar, histCounters, ema_prev, gsteps, histCalls,
                   snap>>

\* lines 89-90 and 112-115: the next batch, self.global_step, the forward pass
Forward(p) ==
    /\ pc[p] = "forward"
    /\ global_step' = [global_step EXCEPT ![p] = GlobalStep(epoch[p], step[p])]
    /\ gsteps' = [gsteps EXCEPT ![p] = Append(@, [call |-> call[p],
                                 step |-> GlobalStep(epoch[p], step[p])])]
    /\ loss' = [loss EXCEPT ![p] = Loss(model[p], step[p])]
    /\ pc' = [pc EXCEPT ![p] = "backward"]
    /\ UNCHANGED <<cfgVars, loadVars, raised, files, call, start_epoch, epoch, step, model,
                   training, optimizer, grad, ema_model, ema, metrics,
                   prepared, trackers, bar, histCounters, ema_prev,
                   epochs_run, histCalls, snap>>

\* lines 117-119: zero_grad, accelerator.backward, and the entry into the
\* first wait_for_everyone
Backward(p) ==
    /\ pc[p] = "backward"
    /\ grad' = [grad EXCEPT ![p] = Grad(step[p])]
    /\ bwd_done' = [bwd_done EXCEPT ![p] = @ + 1]
    /\ bar' = [bar EXCEPT ![p] = @ + 1]
    /\ pc' = [pc EXCEPT ![p] = "wait1"]
    /\ UNCHANGED <<cfgVars, loadVars, raised, files, call, start_epoch, epoch, step, global_step,
                   model, training, optimizer, loss, ema_model, ema, metrics,
                   prepared, trackers, opt_done, ema_done, ema_prev, gsteps,
                   epochs_run, histCalls, snap>>

\* what leaving a barrier changes: the position only
Leave(p, from, to) ==
    /\ pc[p] = from
    /\ pc' = [pc EXCEPT ![p] = to]
    /\ UNCHANGED <<cfgVars, loadVars, raised, files, call, start_epoch, epoch, step, global_step,
                   model, training, optimizer, grad, loss, ema_model, ema,
                   metrics, prepared, trackers, bar, histCounters, ema_prev,
                   gsteps, epochs_run, histCalls, snap>>

\* a slip: the first barrier is missing
NoWaitForEveryone1(p) == Leave(p, "wait1", "opt_step")

\* line 119: the first wait_for_everyone returns
WaitForEveryone1(p) == BarrierOpen(p) /\ Leave(p, "wait1", "opt_step")

\* lines 120-122: self.optimizer.step(), and the entry into the second
\* wait_for_everyone
OptStep(p) ==
    /\ pc[p] = "opt_step"
    /\ LET r == OptimizerStep(model[p], optimizer[p], grad[p])
       IN  /\ model' = [model EXCEPT ![p] = r.model]
           /\ optimizer' = [optimizer EXCEPT ![p] = r.optimizer]
    /\ opt_done' = [opt_done EXCEPT ![p] = @ + 1]
    /\ bar' = [bar EXCEPT ![p] = @ + 1]
    /\ pc' = [pc EXCEPT ![p] = "wait2"]
    /\ UNCHANGED <<cfgVars, loadVars, raised, files, call, start_epoch, epoch, step, global_step,
                   training, grad, loss, ema_model, ema, metrics, prepared,
                   trackers, bwd_done, ema_done, ema_prev, gsteps, epochs_run,
                   histCalls, snap>>

\* a slip: the second barrier is missing
NoWaitForEveryone2(p) == Leave(p, "wait2", "ema")

\* line 122: the second wait_for_everyone returns
WaitForEveryone2(p) == BarrierOpen(p) /\ Leave(p, "wait2", "ema")

\* lines 123-126: on the main process self.ema.step_ema(self.ema_model,
\* unwrapped model); then the entry into the third wait_for_everyone. A
\* process that has no self.ema raises AttributeError there.
EmaStep(p) ==
    /\ pc[p] = "ema"
    /\ IF ShouldEma(p) /\ ~ema[p]
       THEN /\ pc' = [pc EXCEPT ![p] = "error"]
            /\ raised' = [raised EXCEPT ![p] = "AttributeError"]
            /\ UNCHANGED <<ema_model, ema_done, ema_prev, bar>>
       ELSE /\ raised' = raised
            /\ IF ShouldEma(p)
               THEN /\ ema_model' = [ema_model EXCEPT
                                       ![p] = StepEma(@, model[p])]
                    /\ ema_done' = [ema_done EXCEPT ![p] = @ + 1]
                    /\ ema_prev' = ema_model[p]
               ELSE UNCHANGED <<ema_model, ema_done, ema_prev>>
            /\ bar' = [bar EXCEPT ![p] = @ + 1]
            /\ pc' = [pc EXCEPT ![p] = "wait3"]
    /\ UNCHANGED <<cfgVars, loadVars, files, call, start_epoch, epoch, step,
                   global_step, model, training, optimizer, grad, loss, ema,
                   metrics, prepared, trackers, bwd_done, opt_done, gsteps,
                   epochs_run, histCalls, snap>>

\* a slip: the third barrier is missing
NoWaitForEveryone3(p) == Leave(p, "wait3", "log")

\* lines 126-127: the third wait_for_everyone returns, train_step returns
WaitForEveryone3(p) == BarrierOpen(p) /\ Leave(p, "wait3", "log")

\* lines 95-96 and 129-141: log_step on the main process at the logging
\* steps; then the batch loop moves on
LogStep(p) ==
    /\ pc[p] = "log"
    /\ IF ShouldLog(p, global_step[p]) /\ IsMainProcess(p)
       THEN log_records' = Append(log_records,
                [proc |-> p, call |-> call[p], step |-> global_step[p],
                 train |-> metrics[p].train_kl, test |-> metrics[p].test_kl,
                 shuffle |-> metrics[p].shuffle_kl, loss |-> loss[p],
                 epoch |-> epoch[p],
                 seq_similarity |-> metrics[p].seq_similarity,
                 opt_done |-> opt_done[p]])
       ELSE UNCHANGED log_records
    /\ step' = [step EXCEPT ![p] = @ + 1]
    /\ pc' = [pc EXCEPT ![p] = IF step[p] + 1 < Batches THEN "forward"
                               ELSE "sampling"]
    /\ UNCHANGED <<cfgVars, loadVars, raised, files, call, start_epoch, epoch, global_step,
                   model, training, optimizer, grad, loss, ema_model, ema,
                   metrics, prepared, trackers, bar, histCounters, ema_prev,
                   gsteps, epochs_run, sample_calls, metric_calls, ckpt_writes,
                   lora_calls, lora_arg, dirs, snap>>

\* a slip: sample() computes the metrics anew (the lines commented out)
SampleComputingMetrics(p) ==
    /\ pc[p] = "sampling"
    /\ IF ShouldSample(p, epoch[p])
       THEN /\ training' = [training EXCEPT ![p] = FALSE]
            /\ sample_calls' = Append(sample_calls,
                 [proc |-> p, call |-> call[p], epoch |-> epoch[p],
                  opt_done |-> opt_done[p],
                  number_of_samples |->
                      NumberOfSamples(cfg.num_sampling_to_compare_cells)])
            /\ metric_calls' = IF cfg.metric_function
                               THEN Append(metric_calls,
                                      [proc |-> p, call |-> call[p],
                                       epoch |-> epoch[p]])
                               ELSE metric_calls
            /\ metrics' = [metrics EXCEPT
                             ![p] = [train_kl |-> 0, test_kl |-> 0,
                                     shuffle_kl |-> 0, seq_similarity |-> 0]]
       ELSE UNCHANGED <<training, sample_calls, metric_calls, metrics>>
    /\ pc' = [pc EXCEPT ![p] = "saving"]
    /\ UNCHANGED <<cfgVars, loadVars, raised, files, call, start_epoch, epoch, step, global_step,
                   model, optimizer, grad, loss, ema_model, ema,
                   prepared, trackers, bar, histCounters, ema_prev, gsteps,
                   epochs_run, log_records, ckpt_writes, lora_calls, lora_arg,
                   dirs, snap>>

\* lines 99-100 and 144-163: sample() at the sampling epochs: model.eval(),
\* create_sample, and metric_function when one was supplied
Sample(p) ==
    /\ pc[p] = "sampling"
    /\ IF ShouldSample(p, epoch[p])
       THEN /\ training' = [training EXCEPT ![p] = FALSE]
            /\ sample_calls' = Append(sample_calls,
                 [proc |-> p, call |-> call[p], epoch |-> epoch[p],
                  opt_done |-> opt_done[p],
                  number_of_samples |->
                      NumberOfSamples(cfg.num_sampling_to_compare_cells)])
            /\ metric_calls' = IF cfg.metric_function
                               THEN Append(metric_calls,
                                      [proc |-> p, call |-> call[p],
                                       epoch |-> epoch[p]])
                               ELSE metric_calls
       ELSE UNCHANGED <<training, sample_calls, metric_calls>>
    /\ pc' = [pc EXCEPT ![p] = "saving"]
    /\ UNCHANGED <<cfgVars, loadVars, raised, files, call, start_epoch, epoch, step, global_step,
                   model, optimizer, grad, loss, ema_model, ema, metrics,
                   prepared, trackers, bar, histCounters, ema_prev, gsteps,
                   epochs_run, log_records, ckpt_writes, lora_calls, lora_arg,
                   dirs, snap>>

\* lines 103-104 and 175-185: save_model(epoch) at the saving epochs. A
\* process that has no self.ema_model raises AttributeError there.
SaveModel(p) ==
    /\ pc[p] = "saving"
    /\ IF ShouldSave(p, epoch[p]) /\ ~ema[p]
       THEN /\ pc' = [pc EXCEPT ![p] = "error"]
            /\ raised' = [raised EXCEPT ![p] = "AttributeError"]
            /\ UNCHANGED <<files, ckpt_writes, snap>>
       ELSE /\ raised' = raised
            /\ IF ShouldSave(p, epoch[p])
               THEN /\ files' = [files EXCEPT
                                   ![epoch[p]] = CheckpointDict(p, epoch[p])]
                    /\ ckpt_writes' = Append(ckpt_writes,
                         [proc |-> p, call |-> call[p], epoch |-> epoch[p],
                          opt_done |-> opt_done[p],
                          training |-> training[p]])
                    /\ snap' = [snap EXCEPT ![epoch[p]] =
                         [present |-> TRUE, model |-> model[p],
                          optimizer |-> optimizer[p], ema_model |-> ema_model[p],
                          opt_done |-> opt_done[p]]]
               ELSE UNCHANGED <<files, ckpt_writes, snap>>
            /\ pc' = [pc EXCEPT ![p] = "lora"]
    /\ UNCHANGED <<cfgVars, loadVars, call, start_epoch, epoch, step,
                   global_step, model,
                   training, optimizer, grad, loss, ema_model, ema, metrics,
                   prepared, trackers, bar, histCounters, ema_prev, gsteps,
                   epochs_run, log_records, sample_calls, metric_calls,
                   lora_calls, lora_arg, dirs>>

\* lines 188-195: save_lora_model(epoch) makes the directory path_use, then
\* hands self.model.model and the normalised path to save_lora_function. A
\* model without an attribute .model raises AttributeError at line 194,
\* after the directory was made and before save_lora_function is called.
SaveLoraModelBody(p, e) ==
    /\ dirs' = dirs \cup {PathUse(lora_path)}
    /\ IF has_inner
       THEN /\ lora_calls' = Append(lora_calls,
                 [proc |-> p, call |-> call[p], epoch |-> e,
                  opt_done |-> opt_done[p], training |-> training[p]])
            /\ lora_arg' = LoraSaverPath(lora_path, e)
            /\ raised' = raised
       ELSE /\ raised' = [raised EXCEPT ![p] = "AttributeError"]
            /\ UNCHANGED <<lora_calls, lora_arg>>

\* lines 108-109 and 188-195: save_lora_model(epoch) at the export epochs;
\* then the epoch loop moves on, unless save_lora_model raised
SaveLoraModel(p) ==
    /\ pc[p] = "lora"
    /\ IF ShouldExport(p, epoch[p])
       THEN /\ SaveLoraModelBody(p, epoch[p])
            /\ IF has_inner
               THEN /\ epoch' = [epoch EXCEPT ![p] = @ + 1]
                    /\ pc' = [pc EXCEPT ![p] = "epoch_top"]
               ELSE /\ epoch' = epoch
                    /\ pc' = [pc EXCEPT ![p] = "error"]
       ELSE /\ UNCHANGED <<lora_calls, lora_arg, dirs, raised>>
            /\ epoch' = [epoch EXCEPT ![p] = @ + 1]
            /\ pc' = [pc EXCEPT ![p] = "epoch_top"]
    /\ UNCHANGED <<cfgVars, loadVars, files, call, start_epoch, step, global_step, model,
                   training, optimizer, grad, loss, ema_model, ema, metrics,
                   prepared, trackers, bar, histCounters, ema_prev, gsteps,
                   epochs_run, log_records, sample_calls, metric_calls,
                   ckpt_writes, snap>>

\* lines 204-210: load(path, start_train) reads the checkpoint, restores
\* the model (non-strict), the optimizer and start_epoch, and on the main
\* process the EMA model (strict). A missing file and a strict mismatch raise.
Load(p) ==
    /\ pc[p] = "load"
    /\ LET ck == files[CurrentCall(p).path]
       IN  IF ~ck.present
           THEN /\ pc' = [pc EXCEPT ![p] = "error"]
                /\ raised' = [raised EXCEPT ![p] = "FileNotFoundError"]
                /\ UNCHANGED <<model, optimizer, start_epoch, ema_model,
                               loadVars>>
           ELSE /\ checkpoint_dict' = [checkpoint_dict EXCEPT ![p] = ck]
                /\ model_before_load' = [model_before_load EXCEPT
                                           ![p] = model[p]]
                /\ model' = [model EXCEPT
                               ![p] = LoadStateDictNonStrict(@, ck.model)]
                /\ optimizer' = [optimizer EXCEPT ![p] = ck.optimizer]
                /\ start_epoch' = [start_epoch EXCEPT ![p] = ck.epoch]
                /\ IF IsMainProcess(p)
                   THEN IF StrictLoadFails(ema_model[p], ck.ema_model)
                        THEN /\ pc' = [pc EXCEPT ![p] = "error"]
                             /\ raised' = [raised EXCEPT
                                             ![p] = "RuntimeError"]
                             /\ UNCHANGED ema_model
                        ELSE /\ pc' = [pc EXCEPT ![p] = "loaded"]
                             /\ ema_model' = [ema_model EXCEPT ![p] =
                                    LoadStateDictStrict(@, ck.ema_model)]
                             /\ raised' = raised
                   ELSE /\ pc' = [pc EXCEPT ![p] = "loaded"]
                        /\ UNCHANGED <<ema_model, raised>>
    /\ UNCHANGED <<cfgVars, files, call, epoch, step, global_step, training,
                   grad, loss, ema, metrics, prepared, trackers, bar,
                   histCounters, ema_prev, gsteps, epochs_run, histCalls, snap>>

\* lines 212-215: load enters train_loop when start_train, else returns
LoadDispatch(p) ==
    /\ pc[p] = "loaded"
    /\ IF CurrentCall(p).start_train
       THEN /\ pc' = [pc EXCEPT ![p] = "prepare"]
            /\ call' = call
       ELSE /\ pc' = [pc EXCEPT ![p] = "idle"]
            /\ call' = [call EXCEPT ![p] = @ + 1]
    /\ UNCHANGED <<cfgVars, loadVars, raised, files, start_epoch, epoch, step, global_step,
                   model, training, optimizer, grad, loss, ema_model, ema,
                   metrics, prepared, trackers, bar, histCounters, ema_prev,
                   gsteps, epochs_run, histCalls, snap>>

\* save_lora_model(e) called on the constructed object of the main process
CallSaveLoraModel(e) ==
    /\ pc[MainProc] = "idle"
    /\ lora_calls = <<>>
    /\ SaveLoraModelBody(MainProc, e)
    /\ pc' = IF has_inner THEN pc ELSE [pc EXCEPT ![MainProc] = "error"]
    /\ UNCHANGED <<cfgVars, loadVars, files, call, start_epoch, epoch, step,
                   global_step, model, training, optimizer, grad, loss,
                   ema_model, ema, metrics, prepared, trackers, bar,
                   histCounters, ema_prev, gsteps, epochs_run, log_records,
                   sample_calls, metric_calls, ckpt_writes, snap>>

TrainStep(p) ==
    \/ StartCall(p)
    \/ Prepare(p)
    \/ EpochTop(p)
    \/ Forward(p)
    \/ Backward(p)
    \/ WaitForEveryone1(p)
    \/ OptStep(p)
    \/ WaitForEveryone2(p)
    \/ EmaStep(p)
    \/ WaitForEveryone3(p)
    \/ LogStep(p)
    \/ Sample(p)
    \/ SaveModel(p)
    \/ SaveLoraModel(p)

\* A run of the training script: construct, then train_loop()
Next == \E p \in Procs : TrainStep(p)

Spec == Init /\ [][Next]_vars

\* --------------------------------------------- runs that resume from a file
ResumeConfigs ==
    {c \in Configs : /\ c.sample_epoch = c.save_epoch
                     /\ c.lora_save_epoch = c.save_epoch
                     /\ c.log_step_show = c.save_epoch
                     /\ c.save_lora_function
                     /\ c.metric_function}

ResumeScripts ==
    {<<l>> : l \in LoadCalls}
    \cup {<<TrainLoopCall, l>> : l \in LoadCalls}
    \cup {<<l, TrainLoopCall>> : l \in {x \in LoadCalls : ~x.start_train}}
    \cup {<<TrainLoopCall, TrainLoopCall>>}

\* The checkpoint files found at start: none, or one left by an earlier run
\* of a model with the same parameters or with one parameter fewer, under
\* the name of its own epoch or under another name
OtherEpoch(e) == (e % (Epochs + 1)) + 1

InitialFiles ==
    {[e \in CkptEpochs |-> NoFile]}
    \cup UNION {{[e \in CkptEpochs |-> IF e = e0 THEN OldCheckpoint(k[2], k[1])
                                       ELSE NoFile] :
                    k \in {<<e0, ParamNames>>, <<e0, {"w"}>>,
                           <<OtherEpoch(e0), ParamNames>>}} : e0 \in CkptEpochs}

\* a model without the attribute .model is run where no file was left by an
\* earlier run; FairResume has its runs resumed from a file
InitResume ==
    /\ cfg \in ResumeConfigs
    /\ lora_path = <<>>
    /\ script \in ResumeScripts
    /\ files \in InitialFiles
    /\ has_inner \in IF files = [e \in CkptEpochs |-> NoFile] THEN BOOLEAN ELSE {TRUE}
    /\ Constructed

NextResume ==
    \E p \in Procs : \/ TrainStep(p)
                     \/ Load(p)
                     \/ LoadDispatch(p)

SpecResume == InitResume /\ [][NextResume]_vars

\* what one process does next, whatever its position
ProcStep(p) == TrainStep(p) \/ Load(p) \/ LoadDispatch(p)

\* Resumed runs of one configuration: load(path, start_train=True) on a
\* fresh object, or train_loop() followed by load(path, start_train=True) of
\* the checkpoint the last epoch writes
FairScripts ==
    {<<l>> : l \in {x \in LoadCalls : x.start_train}}
    \cup {<<TrainLoopCall, l>> :
             l \in {x \in LoadCalls : x.start_train /\ x.path = Epochs}}

InitFair ==
    /\ cfg \in {c \in ResumeConfigs : c.save_epoch = 1}
    /\ lora_path = <<>>
    /\ has_inner \in BOOLEAN
    /\ script \in FairScripts
    /\ files \in {f \in InitialFiles :
                     \A e \in CkptEpochs :
                        f[e].present => DOMAIN f[e].model = ParamNames}
    /\ Constructed

\* Every process is a running program: a process that can take its next
\* step (a barrier it waits in stays open once it is open) takes it
FairResume ==
    InitFair /\ [][NextResume]_vars /\ \A p \in Procs : WF_vars(ProcStep(p))

\* ---------------------------------------- runs with other sample counts
\* values of num_sampling_to_compare_cells: none, fewer than ten, one that
\* is not a multiple of ten, and the default
SamplingCounts == {0, 9, 25, DefaultNumSampling}

SamplingConfigs ==
    [epochs : {Epochs},
     log_step_show : {1},
     sample_epoch : Intervals,
     save_epoch : {1},
     lora_save_epoch : {1},
     save_lora_function : {FALSE},
     metric_function : BOOLEAN,
     num_sampling_to_compare_cells : SamplingCounts]

InitSampling ==
    /\ cfg \in SamplingConfigs
    /\ lora_path = <<>>
    /\ has_inner \in InnerModels(cfg)
    /\ script = <<TrainLoopCall>>
    /\ files = [e \in CkptEpochs |-> NoFile]
    /\ Constructed

SpecSampling == InitSampling /\ [][Next]_vars

\* ------------------------------------ direct calls of save_lora_model(epoch)
PathStrings ==
    UNION {[1 .. n -> Chars] : n \in 0 .. MaxPathLen} \cup {<<"o", "u", "t", "/">>}

PathEpochs == {7, 12}

InitPath ==
    /\ cfg \in {c \in Configs : /\ c.save_lora_function
                                /\ c.metric_function
                                /\ c.sample_epoch = 1 /\ c.save_epoch = 1
                                /\ c.lora_save_epoch = 1
                                /\ c.log_step_show = 1}
    /\ lora_path \in PathStrings
    /\ has_inner \in BOOLEAN
    /\ script = <<>>
    /\ files = [e \in CkptEpochs |-> NoFile]
    /\ Constructed

NextPath == \E e \in PathEpochs : CallSaveLoraModel(e)

SpecPath == InitPath /\ [][NextPath]_vars

\* ====================================================================
\* Properties
\* ====================================================================
InEpochPcs == {"forward", "backward", "wait1", "opt_step", "wait2", "ema",
               "wait3", "log", "sampling", "saving", "lora", "error"}
InStepPcs == {"backward", "wait1", "opt_step", "wait2", "ema", "wait3", "log"}

\* the i-th epoch process p began is over
EpochFinished(p, i) == i < Len(epochs_run[p]) \/ pc[p] \notin InEpochPcs

\* the calls recorded in h for epoch e of call c
CallsFor(h, c, e) == {i \in 1 .. Len(h) : h[i].call = c /\ h[i].epoch = e}

Indicator(b) == IF b THEN 1 ELSE 0

\* C1: on the main process every finished epoch e has had sample() called
\* once if e mod sample_epoch = 0 and not at all otherwise, save_model(e)
\* once if e mod save_epoch = 0 and not at all otherwise, save_lora_model(e)
\* once if a save_lora_function was supplied and e mod lora_save_epoch = 0
\* and not at all otherwise, each after the last batch of e. An epoch that
\* save_lora_model ended by raising had its sample() and save_model(e) in
\* the same way, and save_lora_model(e) was due in it.
C1_EndOfEpochCalls ==
    \A i \in 1 .. Len(epochs_run[MainProc]) :
        LET r == epochs_run[MainProc][i]
            after == r.first + Batches
            Called(h, due) ==
                /\ Cardinality(CallsFor(h, r.call, r.epoch)) = Indicator(due)
                /\ \A k \in CallsFor(h, r.call, r.epoch) :
                      h[k].proc = MainProc /\ h[k].opt_done = after
        IN  /\ EpochFinished(MainProc, i) =>
               /\ Called(sample_calls, r.epoch % cfg.sample_epoch = 0)
               /\ Called(ckpt_writes, r.epoch % cfg.save_epoch = 0)
               /\ Called(lora_calls, cfg.save_lora_function
                                     /\ r.epoch % cfg.lora_save_epoch = 0)
            /\ i = Len(epochs_run[MainProc]) /\ pc[MainProc] = "error" =>
               /\ Called(sample_calls, r.epoch % cfg.sample_epoch = 0)
               /\ Called(ckpt_writes, r.epoch % cfg.save_epoch = 0)
               /\ Called(lora_calls, FALSE)
               /\ cfg.save_lora_function /\ r.epoch % cfg.lora_save_epoch = 0
               /\ ~has_inner /\ raised[MainProc] = "AttributeError"
               /\ PathUse(lora_path) \in dirs

\* the end-of-epoch calls the main process made for epoch e of its first call
Fired(e) ==
    [sampling |-> CallsFor(sample_calls, 0, e) # {},
     saving |-> CallsFor(ckpt_writes, 0, e) # {},
     exporting |-> CallsFor(lora_calls, 0, e) # {}]

\* C1 witness: a run whose first epoch ended with sample() and
\* save_lora_model but without save_model, and whose second epoch ended
\* with all three
C1_Witness ==
    /\ Len(epochs_run[MainProc]) >= 2
    /\ EpochFinished(MainProc, 2)
    /\ Fired(1) = [sampling |-> TRUE, saving |-> FALSE, exporting |-> TRUE]
    /\ Fired(2) = [sampling |-> TRUE, saving |-> TRUE, exporting |-> TRUE]

\* the gradient steps of the current train_loop that process p has finished,
\* log_step included
StepsFinished(p) ==
    IF pc[p] \in InStepPcs
    THEN Len(gsteps[p]) - 1 ELSE Len(gsteps[p])

\* how many records of h satisfy Test
CountOf(h, Test(_), i) == Cardinality({k \in 1 .. i : Test(h[k])})

\* C2: with two or more processes, exactly one of them the main process,
\* every call of accelerator.log, create_sample, torch.save and
\* save_lora_function is made by the main process, and over all processes
\* together each qualifying epoch the main process has finished has exactly
\* one create_sample, torch.save and save_lora_function call and each
\* qualifying global step exactly one accelerator.log call.
C2_MainProcessOnly ==
    /\ NumProcs >= 2
    /\ Cardinality({p \in Procs : IsMainProcess(p)}) = 1
    /\ \A i \in 1 .. Len(log_records) : log_records[i].proc = MainProc
    /\ \A i \in 1 .. Len(sample_calls) : sample_calls[i].proc = MainProc
    /\ \A i \in 1 .. Len(ckpt_writes) : ckpt_writes[i].proc = MainProc
    /\ \A i \in 1 .. Len(lora_calls) : lora_calls[i].proc = MainProc
    /\ \A i \in 1 .. Len(epochs_run[MainProc]) :
          LET r == epochs_run[MainProc][i]
              Same(x) == x.call = r.call /\ x.epoch = r.epoch
          IN  EpochFinished(MainProc, i) =>
                /\ r.epoch % cfg.sample_epoch = 0 =>
                     CountOf(sample_calls, Same, Len(sample_calls)) = 1
                /\ r.epoch % cfg.save_epoch = 0 =>
                     CountOf(ckpt_writes, Same, Len(ckpt_writes)) = 1
                /\ cfg.save_lora_function /\ r.epoch % cfg.lora_save_epoch = 0
                     => CountOf(lora_calls, Same, Len(lora_calls)) = 1
    /\ \A j \in 1 .. StepsFinished(MainProc) :
          LET g == gsteps[MainProc][j]
              Same(x) == x.call = g.call /\ x.step = g.step
          IN  g.step % cfg.log_step_show = 0 =>
                 CountOf(log_records, Same, Len(log_records)) = 1

\* C2 witness: every process has finished a whole run in which the main
\* process logged, sampled, saved and exported
C2_Witness ==
    /\ \A p \in Procs : pc[p] = "idle" /\ call[p] = 1
    /\ Len(log_records) >= 2 /\ Len(sample_calls) >= 2
    /\ Len(ckpt_writes) >= 2 /\ Len(lora_calls) >= 2

\* C3: at every gradient step of a train_loop invocation global_step equals
\* epoch * batches_per_epoch + step_index, and the global_step values of
\* successive gradient steps are strictly increasing, also from the last
\* batch of one epoch to the first batch of the next.
C3_GlobalStep ==
    \A p \in Procs :
        /\ pc[p] \in InStepPcs => global_step[p] = epoch[p] * Batches + step[p]
        /\ pc[p] \in InStepPcs =>
              gsteps[p][Len(gsteps[p])].step = global_step[p]
        /\ \A i \in 1 .. Len(gsteps[p]) - 1 :
              gsteps[p][i].step < gsteps[p][i + 1].step

\* C3 witness: a process in the first gradient step of its second epoch
C3_Witness ==
    \E p \in Procs :
        /\ pc[p] = "backward"
        /\ Len(epochs_run[p]) = 2
        /\ step[p] = 0
        /\ Len(gsteps[p]) = Batches + 1

\* the gradients a batch can have
BatchGrads == {Grad(b) : b \in 0 .. Batches - 1}

\* C4: when the main process has loaded a checkpoint that save_model(E)
\* wrote, its model parameters, optimizer state and EMA parameters equal
\* their values at the moment of that save and start_epoch = E, so the next
\* gradient step on any batch gives the update it would have given had
\* training gone on from the save.
C4_CheckpointRoundTrip ==
    LET path == CurrentCall(MainProc).path
        s == snap[path]
    IN  pc[MainProc] = "loaded" /\ s.present =>
          /\ model[MainProc] = s.model
          /\ optimizer[MainProc] = s.optimizer
          /\ ema_model[MainProc] = s.ema_model
          /\ start_epoch[MainProc] = path
          /\ \A g \in BatchGrads :
                OptimizerStep(model[MainProc], optimizer[MainProc], g)
                  = OptimizerStep(s.model, s.optimizer, g)

\* C4 witness: the main process has loaded the checkpoint of an epoch after
\* which it had trained on, so that the load changed its parameters
C4_Witness ==
    LET s == snap[CurrentCall(MainProc).path]
    IN  /\ pc[MainProc] = "loaded"
        /\ s.present
        /\ s.opt_done < opt_done[MainProc]
        /\ model_before_load[MainProc] # model[MainProc]

\* the epochs process p began in its call number c, in order
RECURSIVE EpochsOfCall(_, _, _)
EpochsOfCall(p, c, i) ==
    IF i = 0 THEN <<>>
    ELSE IF epochs_run[p][i].call = c
         THEN Append(EpochsOfCall(p, c, i - 1), epochs_run[p][i].epoch)
         ELSE EpochsOfCall(p, c, i - 1)

\* the sequence a, a + 1, ..., b
Range(a, b) == [i \in 1 .. (IF b >= a THEN b - a + 1 ELSE 0) |-> a + i - 1]

IsLoad(c) == script[c + 1].op = "load"

\* C5: a load that does not raise sets start_epoch to the checkpoint's
\* epoch; with start_train false it returns without an epoch, gradient
\* step, sampling, checkpoint write or adapter export of its own; with
\* start_train true it runs the epochs start_epoch, ..., epochs in order and
\* no others.
C5_LoadResumes ==
    \A p \in Procs :
        /\ pc[p] = "loaded" => start_epoch[p] = checkpoint_dict[p].epoch
        /\ \A c \in 0 .. Len(script) - 1 :
              IsLoad(c) /\ ~script[c + 1].start_train =>
                 /\ EpochsOfCall(p, c, Len(epochs_run[p])) = <<>>
                 /\ \A i \in 1 .. Len(sample_calls) : sample_calls[i].call # c
                 /\ \A i \in 1 .. Len(ckpt_writes) : ckpt_writes[i].call # c
                 /\ \A i \in 1 .. Len(lora_calls) : lora_calls[i].call # c
                 /\ (call[p] = c /\ pc[p] = "loaded")
                       \/ (call[p] = c + 1 /\ pc[p] = "idle") =>
                       opt_done[p] = Len(epochs_run[p]) * Batches
        /\ call[p] < Len(script) /\ IsLoad(call[p])
             /\ pc[p] \in InEpochPcs \ {"error"} =>
                EpochsOfCall(p, call[p], Len(epochs_run[p]))
                   = Range(checkpoint_dict[p].epoch, epoch[p])
        /\ call[p] >= 1 /\ IsLoad(call[p] - 1) /\ pc[p] = "idle"
             /\ script[call[p]].start_train =>
                EpochsOfCall(p, call[p] - 1, Len(epochs_run[p]))
                   = Range(checkpoint_dict[p].epoch, cfg.epochs)

\* C5 witness: a process has returned from load(path, start_train=True) of a
\* checkpoint of epoch 2 after running epoch 2 a second time, and no other
\* epoch, in that call
C5_Witness ==
    \E p \in Procs :
        /\ call[p] = 2 /\ pc[p] = "idle" /\ IsLoad(1)
        /\ script[2].start_train
        /\ checkpoint_dict[p].epoch = 2
        /\ EpochsOfCall(p, 1, Len(epochs_run[p])) = <<2>>
        /\ EpochsOfCall(p, 0, Len(epochs_run[p])) = <<1, 2>>

\* the parameters of the model that checkpoint ck does not hold
Lacking(ck) == ParamNames \ DOMAIN ck.model

\* C6: when load reads a checkpoint that lacks a parameter of the current
\* model, a process other than the main one completes the load with every
\* parameter the checkpoint holds restored and the lacking one unchanged;
\* the main process restores its trained model in the same way and then
\* raises on the EMA model's strict restore.
C6_MissingParameter ==
    \A p \in Procs :
        LET ck == checkpoint_dict[p]
            justLoaded == pc[p] = "loaded"
                          \/ (pc[p] = "error" /\ raised[p] = "RuntimeError")
        IN  ck.present /\ Lacking(ck) # {} =>
              /\ ~IsMainProcess(p) => raised[p] = ""
              /\ IsMainProcess(p) => raised[p] = "RuntimeError"
                                     /\ pc[p] = "error"
                                     /\ ema_model[p] # NoParams
                                     /\ DOMAIN ema_model[p] # DOMAIN ck.ema_model
              /\ justLoaded =>
                   \A n \in ParamNames :
                      model[p][n] = IF n \in Lacking(ck)
                                    THEN model_before_load[p][n]
                                    ELSE ck.model[n]

\* C6 witness: after training, a process other than the main one has
\* loaded a checkpoint lacking "v" and kept its trained "v", while the main
\* process has raised on the same checkpoint
C6_Witness ==
    \E p \in Procs \ {MainProc} :
        /\ pc[p] = "loaded"
        /\ Lacking(checkpoint_dict[p]) = {"v"}
        /\ model[p]["v"] # InitModel["v"]
        /\ model[p]["w"] = checkpoint_dict[p].model["w"]
        /\ raised[MainProc] = "RuntimeError"
        /\ checkpoint_dict[MainProc] = checkpoint_dict[p]

\* s with every run of "/" collapsed to a single "/"
RECURSIVE CollapseSlashes(_)
CollapseSlashes(s) ==
    IF Len(s) = 0 THEN <<>>
    ELSE IF Len(s) >= 2 /\ s[1] = "/" /\ s[2] = "/"
         THEN CollapseSlashes(Tail(s))
         ELSE <<s[1]>> \o CollapseSlashes(Tail(s))

HasDoubleSlash(s) == \E i \in 1 .. Len(s) - 1 : s[i] = "/" /\ s[i + 1] = "/"

\* C7: for every lora_path and epoch the path save_lora_model passes to the
\* LoRA saver is (lora_path, or "." when it is empty) + "/" + epoch +
\* "_filepath.pth" with its doubled slashes collapsed, and so holds no "//".
C7_PathHasNoDoubledSeparator ==
    lora_calls # <<>> =>
        /\ lora_arg = CollapseSlashes(
                         FinalPathNameAndFile(lora_path, lora_calls[1].epoch))
        /\ ~HasDoubleSlash(lora_arg)

\* the two paths the specification works out: lora_path "" and "out/" at
\* epoch 7 give "./7_filepath.pth" and "out/7_filepath.pth"
PathExamples ==
    /\ LoraSaverPath(<<>>, 7) = <<".", "/", "7">> \o FileSuffix
    /\ LoraSaverPath(<<"o", "u", "t", "/">>, 7)
          = <<"o", "u", "t", "/", "7">> \o FileSuffix

\* C8: processes other than the main one have no shadow model and never
\* update one; the main process has applied one EMA update per optimizer
\* step, from the first step on and after that step, and the update leaves
\* each shadow parameter at 0.995 * s + 0.005 * c (to the fixed-point unit),
\* s the shadow before and c the trained parameter after the optimizer step.
C8_EmaEveryStep ==
    /\ \A p \in Procs \ {MainProc} :
          ema_done[p] = 0 /\ ema_model[p] = NoParams
    /\ ema_done[MainProc] =
          IF pc[MainProc] \in {"wait2", "ema"} THEN opt_done[MainProc] - 1
          ELSE opt_done[MainProc]
    /\ pc[MainProc] = "wait3" =>
          \A n \in ParamNames :
             LET exact == 995 * ema_prev[n] + 5 * model[MainProc][n]
                 got == 1000 * ema_model[MainProc][n]
             IN  got <= exact /\ exact < got + 1000

\* C8 witness: the main process has just made the EMA update of its very
\* first gradient step, and the update moved the shadow model
C8_Witness ==
    /\ pc[MainProc] = "wait3"
    /\ opt_done[MainProc] = 1 /\ ema_done[MainProc] = 1
    /\ ema_prev = InitModel
    /\ ema_model[MainProc] # ema_prev
    /\ model[MainProc] # InitModel

\* C9: no process has applied more optimizer steps than any process has
\* completed backward passes: the optimizer step of batch k starts only
\* after every process's backward pass of batch k.
C9_BackwardBeforeOptimizerStep ==
    \A p, q \in Procs :
        /\ opt_done[p] <= bwd_done[q]
        /\ pc[p] = "opt_step" => bwd_done[q] >= opt_done[p] + 1

\* C9 witness: a process is about to apply the optimizer step of its
\* second batch while another is still inside the first barrier
C9_Witness ==
    \E p, q \in Procs :
        /\ pc[p] = "opt_step" /\ opt_done[p] = 1
        /\ pc[q] = "wait1" /\ bwd_done[q] = 2

\* C10: the main process has made no more EMA updates than any process
\* has applied optimizer steps: the EMA update of batch k starts only after
\* every process's optimizer step of batch k.
C10_OptimizerStepBeforeEma ==
    \A q \in Procs :
        /\ ema_done[MainProc] <= opt_done[q]
        /\ pc[MainProc] = "ema" => opt_done[q] >= ema_done[MainProc] + 1

\* C10 witness: the main process is about to make the EMA update of its
\* second batch while another process is still inside the second barrier
C10_Witness ==
    \E q \in Procs \ {MainProc} :
        /\ pc[MainProc] = "ema" /\ ema_done[MainProc] = 1
        /\ pc[q] = "wait2" /\ opt_done[q] = 2

\* the forward passes process p has begun
ForwardsBegun(p) == bwd_done[p] + Indicator(pc[p] = "backward")

\* C11: no process has begun more forward passes than the main process has
\* completed EMA updates plus one: the forward pass of the batch after
\* batch k, in the same or in the following epoch, begins only after the
\* main process's EMA update of batch k.
C11_EmaBeforeNextForward ==
    \A p \in Procs :
        /\ ForwardsBegun(p) <= ema_done[MainProc] + 1
        /\ pc[p] = "backward" => ema_done[MainProc] >= bwd_done[p]

\* C11 witness: a process other than the main one has begun the forward
\* pass of the first batch of its second epoch while the main process,
\* its EMA update of the last batch of the first epoch made, is still
\* inside the third barrier
C11_Witness ==
    \E q \in Procs \ {MainProc} :
        /\ pc[q] = "backward" /\ Len(epochs_run[q]) = 2 /\ step[q] = 0
        /\ pc[MainProc] = "wait3" /\ ema_done[MainProc] = Batches
        /\ Len(epochs_run[MainProc]) = 1

\* C12: over the whole life of a TrainLoop object, whatever calls of
\* train_loop() and load(path, start_train) are made on it, no process runs
\* accelerator.prepare more than once, the main process initialises the
\* trackers no more than once, and a process that has begun a gradient step
\* has prepared exactly once before it.
C12_PreparedExactlyOnce ==
    \A p \in Procs :
        /\ prepared[p] <= 1
        /\ trackers[p] <= 1
        /\ ForwardsBegun(p) > 0 =>
              prepared[p] = 1 /\ trackers[p] = Indicator(IsMainProcess(p))

\* a collaborator has failed: torch.load or load_state_dict has raised in
\* some process
CollaboratorFailed ==
    \E p \in Procs : raised[p] \in {"FileNotFoundError", "RuntimeError"}

\* two processes have resumed from checkpoints of different epochs
StartEpochsDiffer ==
    \E p, q \in Procs :
        /\ checkpoint_dict[p].present /\ checkpoint_dict[q].present
        /\ checkpoint_dict[p].epoch # checkpoint_dict[q].epoch

\* the global steps of the epochs a, ..., b, in order
RECURSIVE StepsOfEpochs(_, _)
StepsOfEpochs(a, b) ==
    IF b < a THEN <<>>
    ELSE StepsOfEpochs(a, b - 1)
           \o [s \in 1 .. Batches |-> GlobalStep(b, s - 1)]

\* the train_loop invocation process p returned from last ran exactly the
\* epochs start_epoch .. epochs, each with every batch
RanEveryEpoch(p) ==
    LET c == call[p] - 1
        ran == EpochsOfCall(p, c, Len(epochs_run[p]))
        due == IF cfg.epochs - start_epoch[p] + 1 > 0
               THEN cfg.epochs - start_epoch[p] + 1 ELSE 0
    IN  /\ ran = Range(start_epoch[p], cfg.epochs)
        /\ Len(ran) = due
        /\ [i \in 1 .. Len(gsteps[p]) |-> gsteps[p][i].step]
              = StepsOfEpochs(start_epoch[p], cfg.epochs)
        /\ Len(gsteps[p]) = due * Batches

\* process p has just returned from train_loop, entered directly or from load
ReturnedFromTrainLoop(p) ==
    /\ pc[p] = "idle" /\ call[p] >= 1
    /\ ~IsLoad(call[p] - 1) \/ script[call[p]].start_train

\* C13: when no collaborator fails, every process that enters train_loop
\* returns from it, and a process that has returned has run exactly the
\* max(0, epochs - start_epoch + 1) epochs start_epoch, ..., epochs, each
\* with every batch of the data iterator: none fewer, none more, and no
\* process left in a barrier for ever.
C13_TrainLoopTerminates ==
    /\ [](\A p \in Procs : ReturnedFromTrainLoop(p) => RanEveryEpoch(p))
    /\ \A p \in Procs :
          (pc[p] = "prepare") ~> (pc[p] = "idle" \/ CollaboratorFailed)

\* what does hold: the same with the further premises that the model has
\* the attribute .model that save_lora_model reads and that the processes
\* resume from the same epoch
TerminatesFromSameEpoch ==
    /\ [](\A p \in Procs : ReturnedFromTrainLoop(p) => RanEveryEpoch(p))
    /\ \A p \in Procs :
          (pc[p] = "prepare")
             ~> (pc[p] = "idle" \/ CollaboratorFailed \/ StartEpochsDiffer
                                \/ ~has_inner)

\* C14: on the main process every finished gradient step has exactly one
\* log record if its global_step mod log_step_show = 0 and none otherwise;
\* a record is made after the optimizer step and the EMA update of its
\* batch and before the next batch, it is tagged with that step's
\* global_step and carries that step's epoch, and there is no record of
\* anything else.
C14_LogRecords ==
    LET mine == gsteps[MainProc]
    IN  /\ \A j \in 1 .. Len(mine) :
              LET Same(x) == x.call = mine[j].call /\ x.step = mine[j].step
              IN  CountOf(log_records, Same, Len(log_records)) =
                     Indicator(j <= StepsFinished(MainProc)
                               /\ mine[j].step % cfg.log_step_show = 0)
        /\ \A i \in 1 .. Len(log_records) :
              LET r == log_records[i]
              IN  /\ r.proc = MainProc
                  /\ r.step % cfg.log_step_show = 0
                  /\ \E j \in 1 .. Len(mine) :
                        /\ mine[j].call = r.call /\ mine[j].step = r.step
                        /\ r.opt_done = j
                        /\ ema_done[MainProc] >= j
                  /\ \E b \in 0 .. Batches - 1 :
                        r.step = r.epoch * Batches + b
                  /\ r.epoch \in 1 .. cfg.epochs
        /\ \A i \in 1 .. Len(log_records) - 1 :
              log_records[i].step < log_records[i + 1].step

\* C14 witness: with log_step_show = 2 the main process has finished a run
\* in which it logged some gradient steps, of both epochs, and skipped others
C14_Witness ==
    /\ cfg.log_step_show = 2
    /\ pc[MainProc] = "idle" /\ call[MainProc] = 1
    /\ Len(log_records) >= 2
    /\ Len(log_records) < Len(gsteps[MainProc])
    /\ log_records[1].epoch = 1
    /\ log_records[Len(log_records)].epoch = Epochs

\* the main process is past sample() in the i-th epoch it began
SampledPast(i) ==
    EpochFinished(MainProc, i) \/ pc[MainProc] \in {"saving", "lora"}

\* k is the floor of n / 10
IsFloorOfTenth(k, n) == 10 * k <= n /\ n < 10 * (k + 1)

\* C15: every time the main process has gone through sample() for an epoch,
\* create_sample has been called exactly once for it, with
\* floor(num_sampling_to_compare_cells / 10) as the number of samples;
\* metric_function has been called exactly once for it if one was supplied
\* and not at all otherwise; and nothing has raised. Nothing is called for
\* an epoch that is not a sampling epoch.
C15_SamplingCalls ==
    /\ \A i \in 1 .. Len(epochs_run[MainProc]) :
          LET r == epochs_run[MainProc][i]
              due == r.epoch % cfg.sample_epoch = 0
              sampled == CallsFor(sample_calls, r.call, r.epoch)
              measured == CallsFor(metric_calls, r.call, r.epoch)
          IN  SampledPast(i) =>
                /\ Cardinality(sampled) = Indicator(due)
                /\ Cardinality(measured) =
                      Indicator(due /\ cfg.metric_function)
    /\ \A k \in 1 .. Len(sample_calls) :
          IsFloorOfTenth(sample_calls[k].number_of_samples,
                         cfg.num_sampling_to_compare_cells)
    /\ ~cfg.metric_function => metric_calls = <<>>
    /\ \A p \in Procs : raised[p] = "" /\ pc[p] # "error"

\* C15 witness: no metric function was supplied and the count is 25; the
\* main process has finished its run, having sampled twice with 2 as the
\* number of samples and never called a metric function
C15_Witness ==
    /\ ~cfg.metric_function
    /\ cfg.num_sampling_to_compare_cells = 25
    /\ pc[MainProc] = "idle" /\ call[MainProc] = 1
    /\ Len(sample_calls) = 2
    /\ sample_calls[1].number_of_samples = 2
    /\ metric_calls = <<>>

\* the sentinel the metrics are given at construction
Sentinel == 1

\* C16: in every state train_kl, test_kl, shuffle_kl and seq_similarity of
\* every process equal the sentinel 1, whatever gradient steps, samplings,
\* saves, exports and loads came before, and every log record made carries
\* train = test = shuffle = seq_similarity = 1.
C16_MetricsStaySentinel ==
    /\ \A p \in Procs :
          /\ metrics[p].train_kl = Sentinel
          /\ metrics[p].test_kl = Sentinel
          /\ metrics[p].shuffle_kl = Sentinel
          /\ metrics[p].seq_similarity = Sentinel
    /\ \A i \in 1 .. Len(log_records) :
          /\ log_records[i].train = Sentinel
          /\ log_records[i].test = Sentinel
          /\ log_records[i].shuffle = Sentinel
          /\ log_records[i].seq_similarity = Sentinel

\* C16 witness: the main process has made a log record in a train_loop
\* entered from load, after it had trained, sampled with a metric function,
\* saved and exported
C16_Witness ==
    /\ Len(script) = 2 /\ IsLoad(1) /\ call[MainProc] = 1
    /\ checkpoint_dict[MainProc].present
    /\ \E i \in 1 .. Len(log_records) : log_records[i].call = 1
    /\ sample_calls # <<>> /\ metric_calls # <<>>
    /\ ckpt_writes # <<>> /\ lora_calls # <<>>
    /\ opt_done[MainProc] > Epochs * Batches

\* the script is train_loop() and then load(path, start_train=True)
TrainsThenResumes ==
    /\ Len(script) = 2
    /\ script[1] = TrainLoopCall
    /\ IsLoad(1) /\ script[2].start_train

\* process p has loaded the checkpoint that save_model(E) wrote during the
\* first call, E the epoch in the name of the file loaded
LoadedOwnSave(p) ==
    /\ TrainsThenResumes
    /\ call[p] >= 1
    /\ checkpoint_dict[p].present /\ checkpoint_dict[MainProc].present
    /\ checkpoint_dict[p] = checkpoint_dict[MainProc]
    /\ \E i \in 1 .. Len(ckpt_writes) :
          ckpt_writes[i].call = 0 /\ ckpt_writes[i].epoch = script[2].path

\* process p is past save_model in the first epoch of its second call
PastFirstSave(p) ==
    LET n == Len(EpochsOfCall(p, 1, Len(epochs_run[p])))
    IN  \/ call[p] = 2
        \/ n >= 2
        \/ n = 1 /\ pc[p] \in {"lora", "epoch_top"}

\* C17: a process that loads, with start_train true, the checkpoint written
\* by save_model(E) starts train_loop at epoch E itself, not E + 1: its
\* first gradient step there starts from the restored parameters, the
\* steps of that epoch have the global_step values E * batches + 0, 1, ...
\* that the first call produced (the main process logs them a second
\* time), every batch of epoch E is trained again, and the main process
\* writes the checkpoint of epoch E a second time.
C17_ResumeRepeatsEpoch ==
    \A p \in Procs :
        LET E == script[2].path
            mine == EpochsOfCall(p, 1, Len(epochs_run[p]))
            AtE(x) == x.epoch = E
        IN  LoadedOwnSave(p) =>
              /\ start_epoch[p] = E /\ E % cfg.save_epoch = 0
              /\ mine # <<>> => mine[1] = E
              /\ call[p] = 2 =>
                    /\ mine = Range(E, cfg.epochs) /\ mine # <<>>
                    /\ opt_done[p] = (cfg.epochs + Len(mine)) * Batches
              /\ call[p] = 1 /\ Len(mine) <= 1 /\ opt_done[p] = cfg.epochs * Batches
                    => /\ model[p] = checkpoint_dict[p].model
                       /\ optimizer[p] = checkpoint_dict[p].optimizer
              /\ call[p] = 1 /\ mine # <<>> =>
                    \A j \in 1 .. Len(gsteps[p]) :
                       j <= Batches =>
                          gsteps[p][j] = [call |-> 1,
                                          step |-> GlobalStep(E, j - 1)]
              /\ IsMainProcess(p) /\ PastFirstSave(p) =>
                    /\ CountOf(ckpt_writes, AtE, Len(ckpt_writes)) = 2
                    /\ \A s \in 0 .. Batches - 1 :
                          LET At(x) == x.step = GlobalStep(E, s)
                          IN  GlobalStep(E, s) % cfg.log_step_show = 0 =>
                                CountOf(log_records, At, Len(log_records)) = 2

\* C17 witness: the main process, resumed from the checkpoint of epoch 1
\* that it wrote itself, has trained epoch 1 again from the restored
\* parameters and has just written the checkpoint of epoch 1 again, now
\* with other parameters
C17_Witness ==
    /\ LoadedOwnSave(MainProc)
    /\ script[2].path = 1
    /\ call[MainProc] = 1 /\ pc[MainProc] = "lora" /\ epoch[MainProc] = 1
    /\ opt_done[MainProc] = (Epochs + 1) * Batches
    /\ files[1].present /\ files[1].epoch = 1
    /\ files[1].model # checkpoint_dict[MainProc].model

\* the positions of the work at the end of an epoch
EndOfEpochPcs == {"sampling", "saving", "lora"}

\* C18: with two or more processes, the numbers of optimizer steps any two
\* processes have applied differ by at most one; and while the main
\* process is sampling, saving or exporting at the end of an epoch every
\* other process has applied exactly the optimizer steps the main process
\* has: it may have begun the forward and the backward pass of the next
\* epoch's first batch, but it is not past the barrier before that
\* batch's optimizer step.
C18_OptimizerStepsInLockstep ==
    /\ NumProcs >= 2
    /\ \A p, q \in Procs :
          opt_done[p] - opt_done[q] <= 1 /\ opt_done[q] - opt_done[p] <= 1
    /\ pc[MainProc] \in EndOfEpochPcs =>
          \A q \in Procs :
             /\ opt_done[q] = opt_done[MainProc]
             /\ opt_done[q] = epoch[MainProc] * Batches
             /\ pc[q] \notin {"opt_step", "wait2", "ema"}
             /\ epoch[q] \in {epoch[MainProc], epoch[MainProc] + 1}

\* C18 witness: the main process is still in save_model at the end of
\* epoch 1 while another process, the backward pass of the first batch of
\* epoch 2 done, waits in the barrier before the optimizer step
C18_Witness ==
    \E q \in Procs \ {MainProc} :
        /\ pc[MainProc] = "saving" /\ epoch[MainProc] = 1
        /\ ShouldSave(MainProc, 1)
        /\ pc[q] = "wait1" /\ epoch[q] = 2 /\ step[q] = 0
        /\ bwd_done[q] = Batches + 1
        /\ opt_done[q] = Batches

\* C19: self.ema and self.ema_model exist on the main process and on no
\* other; a process that lacks them has never raised AttributeError, has
\* made no EMA update, holds no shadow parameters and has written no
\* checkpoint, whatever train_loop, train_step, save_model and load did.
C19_EmaOnlyOnMain ==
    \A p \in Procs :
        /\ ema[p] <=> IsMainProcess(p)
        /\ ~ema[p] =>
              /\ raised[p] # "AttributeError"
              /\ ema_done[p] = 0
              /\ ema_model[p] = NoParams
              /\ \A i \in 1 .. Len(ckpt_writes) : ckpt_writes[i].proc # p

\* C19 witness: a process without the EMA objects has trained through a
\* whole train_loop and then completed a load, while the main process
\* updated its shadow model at every step and wrote checkpoints
C19_Witness ==
    \E q \in Procs \ {MainProc} :
        /\ ~ema[q]
        /\ pc[q] = "loaded" /\ call[q] = 1
        /\ opt_done[q] = Epochs * Batches
        /\ ema_done[MainProc] = Epochs * Batches
        /\ ckpt_writes # <<>>
        /\ raised[q] = ""

\* the positions of a gradient step, from the forward pass on
GradientStepPcs == InStepPcs \cup {"forward"}

\* C20: a process that is anywhere in a gradient step has its model in
\* training mode; and a checkpoint or an adapter is written with the model
\* in evaluation mode exactly when sample() ran in the same epoch before it.
C20_GradientStepsInTrainingMode ==
    /\ \A p \in Procs : pc[p] \in GradientStepPcs => training[p]
    /\ \A i \in 1 .. Len(ckpt_writes) :
          ckpt_writes[i].training
             <=> ckpt_writes[i].epoch % cfg.sample_epoch # 0
    /\ \A i \in 1 .. Len(lora_calls) :
          lora_calls[i].training
             <=> lora_calls[i].epoch % cfg.sample_epoch # 0
    /\ \A p \in Procs :
          pc[p] \in {"saving", "lora"} =>
             (training[p] <=> ~ShouldSample(p, epoch[p]))

\* C20 witness: the main process is in a gradient step of epoch 2, in
\* training mode, after it sampled at the end of epoch 1 and wrote the
\* checkpoint and the adapter of epoch 1 in evaluation mode
C20_Witness ==
    /\ pc[MainProc] = "opt_step" /\ epoch[MainProc] = 2
    /\ training[MainProc]
    /\ Len(sample_calls) = 1 /\ sample_calls[1].epoch = 1
    /\ Len(ckpt_writes) = 1 /\ ~ckpt_writes[1].training
    /\ Len(lora_calls) = 1 /\ ~lora_calls[1].training

====
